---- MODULE Spec2Model ----
(***************************************************************************)
(* Model of the two health-check programs of the repository:               *)
(*   app_health_checker.py    - HTTP endpoint checker (class               *)
(*                              ApplicationHealthChecker, generate_report, *)
(*                              main)                                      *)
(*   system_health_monitor.py - local resource monitor (check_* functions, *)
(*                              print_report, main)                        *)
(*                                                                         *)
(* A behaviour is one use of the code, chosen in Init by `prog`:           *)
(*   "http"    : one run of app_health_checker.main()                      *)
(*   "lib"     : a caller driving ApplicationHealthChecker objects         *)
(*               directly (check_health, get_uptime_percentage and         *)
(*               generate_report called in any order, any number of times) *)
(*   "monitor" : one run of system_health_monitor.main()                   *)
(*                                                                         *)
(* Conventions                                                             *)
(*   - Python's None is the empty tuple, a present value v is <<v>>.       *)
(*   - Wall-clock time is counted in hours; a timestamp string is the pair *)
(*     <<day, hour-of-day>> produced by isoformat and parsed back by       *)
(*     fromisoformat.                                                      *)
(*   - Percentages sampled by psutil carry one decimal and are held in     *)
(*     tenths of a percent (80.0% is 800).                                 *)
(*   - A float result of get_uptime_percentage is held as the exact        *)
(*     fraction [num, den].                                                *)
(***************************************************************************)
EXTENDS Integers, Sequences, FiniteSets, TLC

VARIABLES
    prog,         \* which entry point this behaviour runs
    pc,           \* position of the running main(), or "idle" for "lib"
    idx,          \* app_health_checker.main: index of the next checker of the for loop
    now,          \* datetime.datetime.now(), in hours
    checkers,     \* the ApplicationHealthChecker objects (name, expected_status, timeout)
    history,      \* history[i]: checker i's self.history
    probes,       \* probes[i]: what requests.get did on each check of checker i, and when
    report,       \* value last returned by generate_report (None before)
    report_file,  \* content of REPORT_FILE (None when never written)
    log,          \* records emitted through logger / logging
    exit_code,    \* None while running, <<c>> after sys.exit(c)
    uptime,       \* last get_uptime_percentage call made by a caller (None before)
    partitions,   \* what psutil.disk_partitions()/disk_usage gave to check_disk_usage
    results,      \* system_health_monitor.main's results list, as built so far
    alerts,       \* records emitted through alert_logger
    faults        \* what went wrong around the program so far in this behaviour

vars == <<prog, pc, idx, now, checkers, history, probes, report, report_file, log,
          exit_code, uptime, partitions, results, alerts, faults>>

httpVars == <<idx, checkers, history, probes, report, report_file, uptime>>
monVars == <<partitions, results, alerts>>

----------------------------------------------------------------------------
(* Bounds of the model *)

MaxApps == 2        \* longest APPLICATIONS list
MaxChecks == 3      \* check_health calls made by a "lib" caller
MaxReports == 1     \* generate_report calls made by a "lib" caller
MaxTicks == 3       \* clock advances in a behaviour
TickHours == 12     \* hours per clock advance
MaxParts == 2       \* most partitions psutil.disk_partitions() returns

(* Program constants *)

DefaultUptimeHours == 24

None == <<>>
Some(v) == <<v>>

ExpectedStatuses == {200, 204}
StatusCodes == {200, 204, 503}
Elapsed == {120}
Timeouts == {5}
Windows == {12, 24}

Last(s) == s[Len(s)]

----------------------------------------------------------------------------
(* app_health_checker.py : ApplicationHealthChecker *)

(* datetime.isoformat() / datetime.fromisoformat(): date part and time part *)
isoformat(t) == <<t \div 24, t % 24>>
fromisoformat(s) == s[1] * 24 + s[2]

(* What one requests.get call can do: return a response, raise one of the
   three request-level exceptions caught by check_health, or raise anything
   else (an exception that is not a RequestException). *)
Responses == [kind : {"response"}, status_code : StatusCodes, elapsed_ms : Elapsed]
RequestErrors == [kind : {"Timeout", "ConnectionError", "RequestException"}]
OtherErrors == [kind : {"Exception"}]
Outcomes == Responses \cup RequestErrors \cup OtherErrors

_get_status_message(status_code) ==
    CASE status_code = 200 -> "OK - Application is functioning correctly"
      [] status_code = 201 -> "Created - Request successful"
      [] status_code = 204 -> "No Content - Request successful"
      [] status_code = 301 -> "Moved Permanently - Redirect"
      [] status_code = 302 -> "Found - Temporary redirect"
      [] status_code = 400 -> "Bad Request - Invalid request"
      [] status_code = 401 -> "Unauthorized - Authentication required"
      [] status_code = 403 -> "Forbidden - Access denied"
      [] status_code = 404 -> "Not Found - Resource does not exist"
      [] status_code = 500 -> "Internal Server Error - Application error"
      [] status_code = 502 -> "Bad Gateway - Upstream server error"
      [] status_code = 503 -> "Service Unavailable - Application temporarily unavailable"
      [] status_code = 504 -> "Gateway Timeout - Upstream timeout"
      [] OTHER -> "HTTP " \o ToString(status_code)

(* faulty variant: the generic RequestException clause is missing *)
EscapesNoGenericClause(outcome) == outcome.kind \notin {"response", "Timeout", "ConnectionError"}

(* the outcomes no except clause of check_health catches (lines 93-121) *)
Escapes(outcome) == outcome.kind \notin {"response", "Timeout", "ConnectionError", "RequestException"}

(* faulty variant: a server error counts as the application being down *)
ResponseHealth5xxDown(status_code, expected_status) ==
    IF status_code = expected_status THEN "UP"
    ELSE IF status_code >= 500 THEN "DOWN" ELSE "DEGRADED"

(* health of a received response (line 82) *)
ResponseHealth(status_code, expected_status) ==
    IF status_code = expected_status THEN "UP" ELSE "DEGRADED"

(* The status dict check_health builds for an outcome that does not escape
   it.  The 'error' key, absent from the dict of a received response, is
   None there; 'url' and 'headers' are left out. *)
check_health(self, outcome, timestamp) ==
    IF outcome.kind = "response" THEN
        [timestamp |-> timestamp,
         application |-> self.name,
         status_code |-> Some(outcome.status_code),
         expected_status |-> self.expected_status,
         response_time_ms |-> Some(outcome.elapsed_ms),
         health |-> ResponseHealth(outcome.status_code, self.expected_status),
         message |-> _get_status_message(outcome.status_code),
         error |-> None]
    ELSE
        [timestamp |-> timestamp,
         application |-> self.name,
         status_code |-> None,
         expected_status |-> self.expected_status,
         response_time_ms |-> None,
         health |-> "DOWN",
         message |-> CASE outcome.kind = "Timeout" ->
                            "Request timeout after " \o ToString(self.timeout) \o " seconds"
                       [] outcome.kind = "ConnectionError" ->
                            "Connection failed - Application unreachable"
                       [] OTHER -> "Request failed",
         error |-> IF outcome.kind = "Timeout" THEN Some("TIMEOUT")
                   ELSE Some(outcome.kind)]

(* the log record check_health emits for a status (lines 88-91, 105, 119, 133) *)
HealthLog(status) ==
    [level |-> CASE status.health = "UP" -> "INFO"
                 [] status.health = "DEGRADED" -> "WARNING"
                 [] OTHER -> "ERROR",
     msg |-> "check " \o status.health]

(* faulty variant: an entry exactly `hours` hours old still counts *)
_is_recent_inclusive(timestamp, hours, clock) ==
    LET check_time == fromisoformat(timestamp)
        cutoff_time == clock - hours
    IN  check_time >= cutoff_time

_is_recent(timestamp, hours, clock) ==
    LET check_time == fromisoformat(timestamp)
        cutoff_time == clock - hours
    IN  check_time > cutoff_time

get_uptime_percentage(hist, hours, clock) ==
    IF hist = <<>> THEN [num |-> 0, den |-> 1]
    ELSE
        LET IsRecent(h) == _is_recent(h.timestamp, hours, clock)
            recent_checks == SelectSeq(hist, IsRecent)
            IsUp(h) == h.health = "UP"
            up_count == Len(SelectSeq(recent_checks, IsUp))
        IN  IF recent_checks = <<>> THEN [num |-> 0, den |-> 1]
            ELSE [num |-> up_count * 100, den |-> Len(recent_checks)]

(* round(x, 2) of a non-negative fraction, in hundredths *)
round2(x) == (2 * 100 * x.num + x.den) \div (2 * x.den)

----------------------------------------------------------------------------
(* app_health_checker.py : generate_report *)

(* faulty variant: the oldest entry is taken for the latest *)
OldestStatus(hist) == IF hist # <<>> THEN Some(hist[1]) ELSE None

(* line 199 *)
LatestStatus(hist) == IF hist # <<>> THEN Some(hist[Len(hist)]) ELSE None

(* lines 203-208 *)
CountHealth(summary, health) ==
    IF health = "UP" THEN [summary EXCEPT !.up = @ + 1]
    ELSE IF health = "DEGRADED" THEN [summary EXCEPT !.degraded = @ + 1]
    ELSE [summary EXCEPT !.down = @ + 1]

(* lines 211-220 *)
AppReport(checker, hist, latest_status, clock) ==
    [name |-> checker.name,
     current_status |-> latest_status.health,
     status_code |-> latest_status.status_code,
     response_time_ms |-> latest_status.response_time_ms,
     message |-> latest_status.message,
     uptime_24h |-> round2(get_uptime_percentage(hist, DefaultUptimeHours, clock)),
     last_check |-> latest_status.timestamp]

RECURSIVE ReportLoop(_, _, _, _, _)
(* the for loop of lines 198-222, from checker i on *)
ReportLoop(chks, hists, clock, i, rep) ==
    IF i > Len(chks) THEN rep
    ELSE LET latest_status == LatestStatus(hists[i])
         IN  IF latest_status = None THEN ReportLoop(chks, hists, clock, i + 1, rep)
             ELSE ReportLoop(chks, hists, clock, i + 1,
                     [rep EXCEPT
                        !.summary = CountHealth(@, latest_status[1].health),
                        !.applications =
                            Append(@, AppReport(chks[i], hists[i], latest_status[1], clock))])

(* the report dict generate_report returns *)
generate_report(chks, hists, clock) ==
    ReportLoop(chks, hists, clock, 1,
        [generated_at |-> isoformat(clock),
         summary |-> [total_applications |-> Len(chks), up |-> 0, degraded |-> 0, down |-> 0],
         applications |-> <<>>])

(* Outcome of the open/json.dump of lines 254-259 *)
WriteOutcomes == {"ok", "OSError"}

(* faulty variant: the save is not wrapped in try/except *)
SaveErrorEscapes(write) == FALSE

(* lines 254-259: is an exception raised while saving handled locally? *)
SaveErrorHandled(write) == TRUE

SaveLog(write) ==
    IF write = "ok" THEN [level |-> "INFO", msg |-> "Report saved"]
    ELSE [level |-> "ERROR", msg |-> "Failed to save report"]

----------------------------------------------------------------------------
(* app_health_checker.py : main *)

(* sys.exit(c) raises SystemExit(c); any other failure is an Exception.
   `code` is the status the interpreter ends with when nothing catches it. *)
SystemExit(c) == [class |-> "SystemExit", code |-> c]
UnexpectedError == [class |-> "Exception", code |-> 1]

(* faulty variant: a handler that also catches SystemExit *)
CaughtByBareExcept(exc) == TRUE

(* `except Exception` (line 290): SystemExit derives from BaseException *)
CaughtByExceptException(exc) == exc.class = "Exception"

(* status the process ends with when exc is raised inside main's try block *)
ProcessExit(exc) == IF CaughtByExceptException(exc) THEN 2 ELSE exc.code

(* faulty variant: a degraded target fails the run *)
HttpExitStrict(rep) ==
    IF rep.summary.down > 0 THEN SystemExit(1)
    ELSE IF rep.summary.degraded > 0 THEN SystemExit(1)
    ELSE SystemExit(0)

(* lines 280-288: what the driver raises for a report *)
HttpExit(rep) ==
    IF rep.summary.down > 0 THEN SystemExit(1)
    ELSE IF rep.summary.degraded > 0 THEN SystemExit(0)
    ELSE SystemExit(0)

HttpExitLog(rep) ==
    IF rep.summary.down > 0 THEN [level |-> "ERROR", msg |-> "application(s) are DOWN"]
    ELSE IF rep.summary.degraded > 0 THEN [level |-> "WARNING", msg |-> "application(s) are DEGRADED"]
    ELSE [level |-> "INFO", msg |-> "All applications are UP and healthy"]

FailLog == [level |-> "ERROR", msg |-> "Health check failed"]

(* One iteration of `for checker in checkers: checker.check_health()`. *)
MainCheck(outcome) ==
    /\ prog = "http" /\ pc = "check" /\ idx <= Len(checkers)
    /\ probes' = [probes EXCEPT ![idx] = Append(@, [outcome |-> outcome, at |-> now])]
    /\ faults' = IF outcome.kind = "Exception" THEN faults \cup {"internal"} ELSE faults
    /\ IF Escapes(outcome)
       THEN /\ log' = Append(log, FailLog)
            /\ exit_code' = Some(ProcessExit(UnexpectedError))
            /\ pc' = "exited"
            /\ UNCHANGED <<idx, history>>
       ELSE LET status == check_health(checkers[idx], outcome, isoformat(now))
            IN  /\ history' = [history EXCEPT ![idx] = Append(@, status)]
                /\ log' = Append(log, HealthLog(status))
                /\ idx' = idx + 1
                /\ UNCHANGED <<pc, exit_code>>
    /\ UNCHANGED <<prog, now, checkers, report, report_file, uptime>>
    /\ UNCHANGED monVars

(* generate_report(checkers) and the exit decision (lines 277-292).
   `write` is what saving the file does; `failure` says whether something
   else in generate_report (a print, say) raises. *)
MainReport(write, failure) ==
    /\ prog = "http" /\ pc = "check" /\ idx > Len(checkers)
    /\ pc' = "exited"
    /\ faults' = IF failure THEN faults \cup {"internal"}
                 ELSE IF write # "ok" THEN faults \cup {"write"}
                 ELSE faults
    /\ IF failure \/ (write # "ok" /\ ~SaveErrorHandled(write))
       THEN /\ log' = Append(log, FailLog)
            /\ exit_code' = Some(ProcessExit(UnexpectedError))
            /\ UNCHANGED <<report, report_file>>
       ELSE LET rep == generate_report(checkers, history, now)
            IN  /\ report' = Some(rep)
                /\ report_file' = IF write = "ok" THEN Some(rep) ELSE report_file
                /\ log' = log \o <<SaveLog(write), HttpExitLog(rep)>>
                /\ exit_code' = Some(ProcessExit(HttpExit(rep)))
    /\ UNCHANGED <<prog, idx, now, checkers, history, probes, uptime>>
    /\ UNCHANGED monVars

----------------------------------------------------------------------------
(* app_health_checker.py used as a library *)

RECURSIVE TotalLen(_, _)
TotalLen(seqs, i) == IF i > Len(seqs) THEN 0 ELSE Len(seqs[i]) + TotalLen(seqs, i + 1)

(* checker i's check_health(); an exception that is not request-level
   escapes to the caller before anything is stored *)
LibCheck(i, outcome) ==
    /\ prog = "lib" /\ TotalLen(probes, 1) < MaxChecks
    /\ probes' = [probes EXCEPT ![i] = Append(@, [outcome |-> outcome, at |-> now])]
    /\ faults' = IF outcome.kind = "Exception" THEN faults \cup {"internal"} ELSE faults
    /\ IF Escapes(outcome)
       THEN UNCHANGED <<history, log>>
       ELSE LET status == check_health(checkers[i], outcome, isoformat(now))
            IN  /\ history' = [history EXCEPT ![i] = Append(@, status)]
                /\ log' = Append(log, HealthLog(status))
    /\ UNCHANGED <<prog, pc, idx, now, checkers, report, report_file, exit_code, uptime>>
    /\ UNCHANGED monVars

(* checker i's get_uptime_percentage(hours) *)
LibUptime(i, hours) ==
    /\ prog = "lib"
    /\ uptime' = Some([checker |-> i, hours |-> hours, at |-> now,
                       value |-> get_uptime_percentage(history[i], hours, now)])
    /\ UNCHANGED <<prog, pc, idx, now, checkers, history, probes, report, report_file,
                   log, exit_code, faults>>
    /\ UNCHANGED monVars

(* generate_report calls made so far: each one logs the outcome of the save *)
Reports ==
    LET IsSaveLog(r) == r.msg \in {"Report saved", "Failed to save report"}
    IN  Len(SelectSeq(log, IsSaveLog))

(* generate_report(checkers) *)
LibReport(write) ==
    /\ prog = "lib" /\ Reports < MaxReports
    /\ LET rep == generate_report(checkers, history, now)
       IN  /\ report' = Some(rep)
           /\ report_file' = IF write = "ok" THEN Some(rep) ELSE report_file
           /\ log' = Append(log, SaveLog(write))
    /\ faults' = IF write # "ok" THEN faults \cup {"write"} ELSE faults
    /\ UNCHANGED <<prog, pc, idx, now, checkers, history, probes, exit_code, uptime>>
    /\ UNCHANGED monVars

(* the wall clock advances *)
Tick ==
    /\ prog \in {"http", "lib"} /\ pc # "exited"
    /\ now < MaxTicks * TickHours
    /\ now' = now + TickHours
    /\ UNCHANGED <<prog, pc, idx, checkers, history, probes, report, report_file, log,
                   exit_code, uptime, faults>>
    /\ UNCHANGED monVars

----------------------------------------------------------------------------
(* system_health_monitor.py *)

THRESHOLDS ==
    [cpu_percent |-> 80, memory_percent |-> 80, disk_percent |-> 85, process_count |-> 300]

(* a whole percentage in the unit of the sampled values (tenths of a percent) *)
Percent(p) == p * 10

CpuSamples == {Percent(80) - 1, Percent(80), Percent(80) + 1, Percent(91) + 2}
MemorySamples == {Percent(80) - 1, Percent(80), Percent(80) + 1}
DiskSamples == {Percent(85) - 1, Percent(85), Percent(85) + 1}
ProcessCounts == {299, 300, 301}
(* cpu_percent of the infos process_iter yields: a number, or None where
   access to the process was denied *)
ProcessLists == {<<>>, <<Some(15)>>, <<None>>, <<Some(15), Some(7)>>, <<Some(15), None>>}

(* what a psutil sampling call does: return a percentage or raise *)
Sampled(values) ==
    [outcome : {"value"}, percent : values] \cup [outcome : {"Exception"}, percent : {0}]

check_cpu_usage(cpu_percent) ==
    [kind |-> "dict", metric |-> "CPU", value |-> cpu_percent,
     threshold |-> THRESHOLDS.cpu_percent,
     status |-> IF cpu_percent > Percent(THRESHOLDS.cpu_percent) THEN "CRITICAL" ELSE "OK"]

check_memory_usage(memory_percent) ==
    [kind |-> "dict", metric |-> "Memory", value |-> memory_percent,
     threshold |-> THRESHOLDS.memory_percent,
     status |-> IF memory_percent > Percent(THRESHOLDS.memory_percent)
                THEN "CRITICAL" ELSE "OK"]

(* What psutil.disk_usage(partition.mountpoint) does for one partition *)
PartitionOutcomes ==
    [outcome : {"usage"}, percent : DiskSamples]
        \cup [outcome : {"PermissionError", "OSError"}, percent : {0}]

(* the lists psutil.disk_partitions() can return, mountpoints numbered in
   enumeration order *)
PartitionLists ==
    UNION {{[k \in 1..n |-> [mountpoint |-> k, outcome |-> f[k].outcome, percent |-> f[k].percent]]
              : f \in [1..n -> PartitionOutcomes]} : n \in 0..MaxParts}

(* faulty variant: the threshold itself already counts as exceeded *)
DiskStatusInclusive(partition) ==
    [kind |-> "dict", metric |-> <<"Disk", partition.mountpoint>>,
     value |-> partition.percent,
     threshold |-> THRESHOLDS.disk_percent,
     status |-> IF partition.percent >= Percent(THRESHOLDS.disk_percent)
                THEN "CRITICAL" ELSE "OK"]

(* lines 90-99: the status dict of one partition *)
DiskStatus(partition) ==
    [kind |-> "dict", metric |-> <<"Disk", partition.mountpoint>>,
     value |-> partition.percent,
     threshold |-> THRESHOLDS.disk_percent,
     status |-> IF partition.percent > Percent(THRESHOLDS.disk_percent)
                THEN "CRITICAL" ELSE "OK"]

(* faulty variant: no except PermissionError clause *)
DiskSkipsNothing(outcome) == FALSE

(* line 107: the exceptions of disk_usage the loop swallows *)
DiskSkips(outcome) == outcome = "PermissionError"

RECURSIVE DiskLoop(_, _, _)
(* the for loop of lines 86-108 from partition i on; raised says whether an
   exception left the function *)
DiskLoop(parts, i, disk_status) ==
    IF i > Len(parts) THEN [raised |-> FALSE, value |-> disk_status]
    ELSE IF parts[i].outcome = "usage"
         THEN DiskLoop(parts, i + 1, Append(disk_status, DiskStatus(parts[i])))
    ELSE IF DiskSkips(parts[i].outcome) THEN DiskLoop(parts, i + 1, disk_status)
    ELSE [raised |-> TRUE, value |-> disk_status]

check_disk_usage(parts) == DiskLoop(parts, 1, <<>>)

(* lines 125 and 132: sorted() compares the cpu_percent values and the
   f-string formats them with .1f; either raises TypeError on a None *)
TopProcessesRaise(processes) == \E k \in 1..Len(processes) : processes[k] = None

check_running_processes(process_count, processes) ==
    IF TopProcessesRaise(processes) THEN [raised |-> TRUE, value |-> <<>>]
    ELSE [raised |-> FALSE,
          value |-> [kind |-> "dict", metric |-> "Processes", value |-> process_count,
                     threshold |-> THRESHOLDS.process_count,
                     status |-> IF process_count > THRESHOLDS.process_count
                                THEN "WARNING" ELSE "OK"]]

(* the alert_logger.warning calls a returned status gave rise to *)
AlertsOf(statuses) ==
    LET NotOk(st) == st.status # "OK"
        bad == SelectSeq(statuses, NotOk)
    IN  [k \in 1..Len(bad) |-> bad[k].metric]

(* faulty variant: only the flat results are counted *)
critical_count_flat(res) ==
    LET IsCriticalDict(r) == r.kind = "dict" /\ r.status = "CRITICAL"
    IN  Len(SelectSeq(res, IsCriticalDict))

(* lines 188-189 *)
critical_count(res) ==
    LET IsCriticalDict(r) == r.kind = "dict" /\ r.status = "CRITICAL"
        IsList(r) == r.kind = "list"
        IsCritical(item) == item.status = "CRITICAL"
        lists == SelectSeq(res, IsList)
        RECURSIVE InLists(_)
        InLists(k) == IF k > Len(lists) THEN 0
                      ELSE Len(SelectSeq(lists[k].items, IsCritical)) + InLists(k + 1)
    IN  Len(SelectSeq(res, IsCriticalDict)) + InLists(1)

(* lines 191-196 *)
MonitorExit(res) == IF critical_count(res) > 0 THEN SystemExit(1) ELSE SystemExit(0)

(* the except branch of main (lines 198-200) taken *)
MonitorFail ==
    /\ log' = Append(log, [level |-> "ERROR", msg |-> "Error during health check"])
    /\ exit_code' = Some(ProcessExit(UnexpectedError))
    /\ pc' = "exited"

MonCpu(sample) ==
    /\ prog = "monitor" /\ pc = "cpu"
    /\ faults' = IF sample.outcome = "Exception" THEN faults \cup {"internal"} ELSE faults
    /\ IF sample.outcome = "Exception"
       THEN MonitorFail /\ UNCHANGED <<results, alerts>>
       ELSE LET st == check_cpu_usage(sample.percent)
            IN  /\ results' = Append(results, st)
                /\ alerts' = alerts \o AlertsOf(<<st>>)
                /\ pc' = "memory"
                /\ UNCHANGED <<log, exit_code>>
    /\ UNCHANGED <<prog, now, partitions>>
    /\ UNCHANGED httpVars

MonMemory(sample) ==
    /\ prog = "monitor" /\ pc = "memory"
    /\ faults' = IF sample.outcome = "Exception" THEN faults \cup {"internal"} ELSE faults
    /\ IF sample.outcome = "Exception"
       THEN MonitorFail /\ UNCHANGED <<results, alerts>>
       ELSE LET st == check_memory_usage(sample.percent)
            IN  /\ results' = Append(results, st)
                /\ alerts' = alerts \o AlertsOf(<<st>>)
                /\ pc' = "disk"
                /\ UNCHANGED <<log, exit_code>>
    /\ UNCHANGED <<prog, now, partitions>>
    /\ UNCHANGED httpVars

MonDisk(parts) ==
    /\ prog = "monitor" /\ pc = "disk"
    /\ partitions' = parts
    /\ faults' = faults
          \cup (IF \E k \in 1..Len(parts) : parts[k].outcome = "OSError"
                THEN {"internal"} ELSE {})
          \cup (IF \E k \in 1..Len(parts) : parts[k].outcome = "PermissionError"
                THEN {"permission"} ELSE {})
    /\ LET r == check_disk_usage(parts)
       IN  /\ alerts' = alerts \o AlertsOf(r.value)
           /\ IF r.raised
              THEN MonitorFail /\ UNCHANGED results
              ELSE /\ results' = Append(results, [kind |-> "list", items |-> r.value])
                   /\ pc' = "processes"
                   /\ UNCHANGED <<log, exit_code>>
    /\ UNCHANGED <<prog, now>>
    /\ UNCHANGED httpVars

MonProcesses(process_count, processes) ==
    /\ prog = "monitor" /\ pc = "processes"
    /\ faults' = IF \E k \in 1..Len(processes) : processes[k] = None
                 THEN faults \cup {"denied"} ELSE faults
    /\ LET r == check_running_processes(process_count, processes)
       IN  IF r.raised
           THEN MonitorFail /\ UNCHANGED <<results, alerts>>
           ELSE /\ results' = Append(results, r.value)
                /\ alerts' = alerts \o AlertsOf(<<r.value>>)
                /\ pc' = "report"
                /\ UNCHANGED <<log, exit_code>>
    /\ UNCHANGED <<prog, now, partitions>>
    /\ UNCHANGED httpVars

(* print_report(results) and the exit decision (lines 185-196); `failure`
   says whether print_report raises *)
MonReport(failure) ==
    /\ prog = "monitor" /\ pc = "report"
    /\ faults' = IF failure THEN faults \cup {"internal"} ELSE faults
    /\ IF failure
       THEN MonitorFail
       ELSE /\ log' = Append(log,
                       IF critical_count(results) > 0
                       THEN [level |-> "ERROR", msg |-> "completed with CRITICAL alert(s)"]
                       ELSE [level |-> "INFO", msg |-> "completed successfully"])
            /\ exit_code' = Some(ProcessExit(MonitorExit(results)))
            /\ pc' = "exited"
    /\ UNCHANGED <<prog, now, partitions, results, alerts>>
    /\ UNCHANGED httpVars

----------------------------------------------------------------------------
(* The configurations APPLICATIONS can hold, turned into checkers by
   __init__ (lines 54-59) *)
CheckerLists(lengths, expected) ==
    UNION {{[i \in 1..n |-> [name |-> i, expected_status |-> c[i].expected_status,
                              timeout |-> c[i].timeout]]
              : c \in [1..n -> [expected_status : expected, timeout : Timeouts]]}
             : n \in lengths}

InitFor(progs, lists) ==
    /\ prog \in progs
    /\ pc = CASE prog = "http" -> "check" [] prog = "lib" -> "idle" [] OTHER -> "cpu"
    /\ idx = 1
    /\ now = 0
    /\ checkers \in (IF prog = "monitor" THEN {<<>>} ELSE lists)
    /\ history = [i \in 1..Len(checkers) |-> <<>>]
    /\ probes = [i \in 1..Len(checkers) |-> <<>>]
    /\ report = None
    /\ report_file = None
    /\ log = <<>>
    /\ exit_code = None
    /\ uptime = None
    /\ partitions = <<>>
    /\ results = <<>>
    /\ alerts = <<>>
    /\ faults = {}

(* one run of either program *)
Init == InitFor({"http", "monitor"}, CheckerLists(0..MaxApps, ExpectedStatuses))

Next ==
    \/ \E outcome \in Outcomes : MainCheck(outcome)
    \/ \E write \in WriteOutcomes, failure \in BOOLEAN : MainReport(write, failure)
    \/ Tick
    \/ \E sample \in Sampled(CpuSamples) : MonCpu(sample)
    \/ \E sample \in Sampled(MemorySamples) : MonMemory(sample)
    \/ \E parts \in PartitionLists : MonDisk(parts)
    \/ \E process_count \in ProcessCounts, processes \in ProcessLists :
           MonProcesses(process_count, processes)
    \/ \E failure \in BOOLEAN : MonReport(failure)

Spec == Init /\ [][Next]_vars

(* one run of app_health_checker.main() *)
InitMain == InitFor({"http"}, CheckerLists(0..MaxApps, ExpectedStatuses))

NextMain ==
    \/ \E outcome \in Outcomes : MainCheck(outcome)
    \/ \E write \in WriteOutcomes, failure \in BOOLEAN : MainReport(write, failure)
    \/ Tick

SpecMain == InitMain /\ [][NextMain]_vars

(* one run of system_health_monitor.main() *)
InitMonitor == InitFor({"monitor"}, {<<>>})

NextMonitor ==
    \/ \E sample \in Sampled(CpuSamples) : MonCpu(sample)
    \/ \E sample \in Sampled(MemorySamples) : MonMemory(sample)
    \/ \E parts \in PartitionLists : MonDisk(parts)
    \/ \E process_count \in ProcessCounts, processes \in ProcessLists :
           MonProcesses(process_count, processes)
    \/ \E failure \in BOOLEAN : MonReport(failure)

SpecMonitor == InitMonitor /\ [][NextMonitor]_vars

(* the outcomes a polling caller is given: one per verdict for either
   expected status, and an escaping exception *)
PollOutcomes ==
    {o \in Outcomes : \/ o.kind = "response" /\ o.status_code \in ExpectedStatuses
                      \/ o.kind \in {"Timeout", "Exception"}}

(* a caller polling one checker over time and asking for its uptime *)
InitUptime == InitFor({"lib"}, CheckerLists({1}, ExpectedStatuses))

NextUptime ==
    \/ \E i \in 1..Len(checkers), outcome \in PollOutcomes : LibCheck(i, outcome)
    \/ \E i \in 1..Len(checkers), hours \in Windows : LibUptime(i, hours)
    \/ Tick

SpecUptime == InitUptime /\ [][NextUptime]_vars

(* a caller checking the checkers in any order, any number of times, and
   generating reports; every entry expects 200, as those of APPLICATIONS do *)
InitReport == InitFor({"lib"}, CheckerLists(1..MaxApps, {200}))

NextReport ==
    \/ \E i \in 1..Len(checkers), outcome \in PollOutcomes : LibCheck(i, outcome)
    \/ \E write \in WriteOutcomes : LibReport(write)

SpecReport == InitReport /\ [][NextReport]_vars

----------------------------------------------------------------------------
(* Properties *)

(* some checker's latest result has verdict h *)
AnyLatest(h) ==
    \E i \in 1..Len(checkers) : history[i] # <<>> /\ Last(history[i]).health = h

(* an exception other than SystemExit was raised inside main's try block:
   by requests, psutil or print, or (monitor) by sorting and formatting the
   cpu_percent of a process whose info holds None *)
HttpRaised == "internal" \in faults
MonRaised == faults \cap {"internal", "denied"} # {}

(* some metric result, flat or inside the disk list, is CRITICAL *)
MonCritical ==
    \E k \in 1..Len(results) :
        \/ results[k].kind = "dict" /\ results[k].status = "CRITICAL"
        \/ results[k].kind = "list"
             /\ \E j \in 1..Len(results[k].items) : results[k].items[j].status = "CRITICAL"

(* C1: when app_health_checker.main() has exited, the exit code is 2 if an
   unexpected error was raised during the run, otherwise 1 if some target's
   latest verdict is DOWN, otherwise 0 (DEGRADED targets included). *)
C1_HttpExitCode ==
    (prog = "http" /\ pc = "exited") =>
        exit_code = Some(IF HttpRaised THEN 2 ELSE IF AnyLatest("DOWN") THEN 1 ELSE 0)

C1_Witness ==
    /\ prog = "http" /\ pc = "exited" /\ exit_code = Some(1)
    /\ AnyLatest("DEGRADED") /\ AnyLatest("DOWN")

(* C2: when system_health_monitor.main() has exited, the exit code is 2 if
   an unexpected error was raised, otherwise 1 exactly when some metric
   result (flat, or a partition's inside the disk list) is CRITICAL, and 0
   otherwise, the process-count WARNING included. *)
C2_MonitorExitCode ==
    (prog = "monitor" /\ pc = "exited") =>
        exit_code = Some(IF MonRaised THEN 2 ELSE IF MonCritical THEN 1 ELSE 0)

C2_Witness ==
    /\ prog = "monitor" /\ pc = "exited" /\ exit_code = Some(0)
    /\ Len(results) = 4 /\ results[4].status = "WARNING"
    /\ Len(results[3].items) > 0

(* everything checked is healthy / something degraded or critical was found *)
AllHealthy ==
    IF prog = "http"
    THEN \A i \in 1..Len(checkers) : history[i] # <<>> /\ Last(history[i]).health = "UP"
    ELSE /\ \A k \in 1..Len(results) :
              IF results[k].kind = "dict" THEN results[k].status = "OK"
              ELSE \A j \in 1..Len(results[k].items) : results[k].items[j].status = "OK"
DegradedOrCritical ==
    IF prog = "http" THEN AnyLatest("DEGRADED") \/ AnyLatest("DOWN") ELSE MonCritical
RunRaised == IF prog = "http" THEN HttpRaised ELSE MonRaised

(* C3 as stated: exit code 0 only when everything checked is healthy, 1
   whenever a degraded or critical condition was found, 2 on an internal
   error. *)
C3_AsStated ==
    pc = "exited" =>
        /\ exit_code = Some(0) => AllHealthy
        /\ (DegradedOrCritical /\ ~RunRaised) => exit_code = Some(1)
        /\ RunRaised => exit_code = Some(2)

(* C3 amended: in both programs the exit code is 2 on an internal error,
   otherwise 1 exactly when a target is DOWN (HTTP) or a metric is CRITICAL
   (resources), otherwise 0; DEGRADED targets and the process-count WARNING
   leave it 0. *)
C3_ExitCodeMeaning ==
    pc = "exited" =>
        /\ RunRaised <=> exit_code = Some(2)
        /\ ~RunRaised =>
             (exit_code = Some(1)
                <=> IF prog = "http" THEN AnyLatest("DOWN") ELSE MonCritical)
        /\ exit_code \in {Some(0), Some(1), Some(2)}

C3_Witness ==
    /\ prog = "http" /\ pc = "exited" /\ exit_code = Some(0)
    /\ AnyLatest("DEGRADED") /\ ~AnyLatest("DOWN")

(* the probes of checker i that produced a result, in order: they pair with
   the entries of history[i] *)
Answered(i) ==
    LET Stored(p) == p.outcome.kind # "Exception"
    IN  SelectSeq(probes[i], Stored)

RequestFailures == {"Timeout", "ConnectionError", "RequestException"}

(* C4: every stored result of check_health is UP when a response was
   received with the expected status code, DEGRADED when one was received
   with any other code, and DOWN exactly when no response was received; a
   DOWN result has status_code and response_time_ms None. *)
C4_Verdict ==
    \A i \in 1..Len(checkers) : \A k \in 1..Len(history[i]) :
        LET o == probes[i][k].outcome
            h == history[i][k]
        IN  /\ o.kind = "response" =>
                 /\ h.status_code = Some(o.status_code)
                 /\ (o.status_code = checkers[i].expected_status => h.health = "UP")
                 /\ (o.status_code # checkers[i].expected_status => h.health = "DEGRADED")
            /\ h.health = "DOWN" <=> o.kind \in RequestFailures
            /\ h.health = "DOWN" => (h.status_code = None /\ h.response_time_ms = None)

C4_Witness ==
    /\ prog = "http" /\ Len(checkers) = 2
    /\ Len(history[1]) = 1 /\ Len(history[2]) = 1
    /\ probes[1][1].outcome.kind = "response" /\ probes[1][1].outcome.status_code = 503
    /\ history[1][1].health = "DEGRADED"
    /\ probes[2][1].outcome.kind = "Timeout" /\ history[2][1].health = "DOWN"

(* C5: each resource result is non-OK (CRITICAL for CPU, memory, disk;
   WARNING for the process count) exactly when its value is strictly greater
   than the configured threshold, and OK at or below it. *)
C5_Thresholds ==
    \A k \in 1..Len(results) :
        LET StatusOk(r, limit, bad) ==
                /\ r.value > limit => r.status = bad
                /\ r.value <= limit => r.status = "OK"
        IN  CASE k = 1 -> StatusOk(results[k], Percent(THRESHOLDS.cpu_percent), "CRITICAL")
              [] k = 2 -> StatusOk(results[k], Percent(THRESHOLDS.memory_percent), "CRITICAL")
              [] k = 3 -> \A j \in 1..Len(results[k].items) :
                              StatusOk(results[k].items[j],
                                       Percent(THRESHOLDS.disk_percent), "CRITICAL")
              [] OTHER -> StatusOk(results[k], THRESHOLDS.process_count, "WARNING")

C5_Witness ==
    /\ Len(results) = 4
    /\ results[1].value = Percent(80) /\ results[1].status = "OK"
    /\ results[2].value = Percent(80) + 1 /\ results[2].status = "CRITICAL"
    /\ Len(results[3].items) = 2
    /\ results[3].items[1].value = Percent(85) /\ results[3].items[1].status = "OK"
    /\ results[3].items[2].value = Percent(85) + 1
    /\ results[3].items[2].status = "CRITICAL"
    /\ results[4].value = 300 /\ results[4].status = "OK"

(* C7: a timeout, connection failure or other request failure of a target
   is stored as a DOWN result of that target and the run goes on with the
   next target; it alone never makes the run end with code 2; and once the
   report exists every target has been checked exactly once and holds
   exactly one result. *)
C7_FailuresRecovered ==
    prog = "http" =>
        /\ \A i \in 1..Len(checkers) : \A k \in 1..Len(probes[i]) :
               probes[i][k].outcome.kind \in RequestFailures =>
                   /\ Len(history[i]) >= k /\ history[i][k].health = "DOWN"
                   /\ idx > i
        /\ (pc = "exited" /\ ~HttpRaised) => report # None
        /\ report # None =>
               \A i \in 1..Len(checkers) : Len(probes[i]) = 1 /\ Len(history[i]) = 1

C7_Witness ==
    /\ prog = "http" /\ pc = "exited" /\ report # None /\ Len(checkers) = 2
    /\ probes[1][1].outcome.kind = "ConnectionError"
    /\ Len(history[2]) = 1 /\ history[2][1].health = "UP"

(* the exit code a run's verdicts call for *)
VerdictCode == IF AnyLatest("DOWN") THEN 1 ELSE 0

(* C8: when saving the report file fails, the failure is logged as an
   error, generate_report still returns the full report, and main exits with
   the code the verdicts call for (never 2). *)
C8_WriteFailure ==
    (prog = "http" /\ pc = "exited" /\ "write" \in faults) =>
        /\ \E k \in 1..Len(log) :
               log[k] = [level |-> "ERROR", msg |-> "Failed to save report"]
        /\ report # None
        /\ report[1].summary.total_applications = Len(checkers)
        /\ Len(report[1].applications) = Len(checkers)
        /\ \A i \in 1..Len(checkers) :
               report[1].applications[i].current_status = Last(history[i]).health
        /\ report_file = None
        /\ exit_code = Some(VerdictCode)

C8_Witness ==
    /\ prog = "http" /\ pc = "exited" /\ "write" \in faults
    /\ exit_code = Some(1) /\ Len(checkers) = 2

(* C9: check_disk_usage returns one result per partition whose usage could
   be read, in enumeration order, and none for a partition that raised a
   permission error; permission errors do not make it raise, and alone
   never lead to exit code 2. *)
C9_DiskSkipsDenied ==
    prog = "monitor" =>
        LET Readable(q) == q.outcome = "usage"
            readable == SelectSeq(partitions, Readable)
            Broken == \E k \in 1..Len(partitions) : partitions[k].outcome = "OSError"
        IN  /\ (pc \in {"processes", "report"} \/ Len(results) >= 3) =>
                 /\ ~Broken
                 /\ Len(results[3].items) = Len(readable)
                 /\ \A j \in 1..Len(readable) :
                        /\ results[3].items[j].metric = <<"Disk", readable[j].mountpoint>>
                        /\ results[3].items[j].value = readable[j].percent
            /\ (pc = "exited" /\ Len(results) = 2) => Broken
            /\ (pc = "exited" /\ faults = {"permission"}) => exit_code # Some(2)

C9_Witness ==
    /\ prog = "monitor" /\ pc = "exited" /\ exit_code = Some(1)
    /\ Len(partitions) = 2
    /\ partitions[1].outcome = "PermissionError" /\ partitions[2].outcome = "usage"
    /\ Len(results[3].items) = 1
    /\ results[3].items[1].metric = <<"Disk", 2>>

(* t lies in the window of `hours` hours that ends at clock; the window is
   closed at its start or open there *)
InWindow(t, hours, clock, closed) ==
    /\ IF closed THEN t >= clock - hours ELSE t > clock - hours
    /\ t <= clock

(* the value of the last get_uptime_percentage call is 100 * (entries in the
   window with verdict UP) / (entries in the window), and 0 when no entry is
   in the window; entries are placed by the time they were recorded *)
UptimeAsClaimed(closed) ==
    /\ uptime # None
    /\ LET u == uptime[1]
           hist == history[u.checker]
           asked == Answered(u.checker)
           inside == {k \in 1..Len(hist) : InWindow(asked[k].at, u.hours, u.at, closed)}
           up == {k \in inside : hist[k].health = "UP"}
       IN  /\ u.value.den > 0
           /\ IF inside = {} THEN u.value.num = 0
              ELSE u.value.num * Cardinality(inside) = 100 * Cardinality(up) * u.value.den

(* C6 as stated: get_uptime_percentage(hours) returns the share of UP
   entries among those with a timestamp in the closed interval
   [now - hours, now], 0 when there is none. *)
C6_AsStated == [][uptime' # uptime => UptimeAsClaimed(TRUE)']_vars

(* C6 amended: get_uptime_percentage(hours) returns the share of UP entries
   among those with a timestamp strictly later than now - hours, that is in
   (now - hours, now]; an entry recorded exactly `hours` hours ago is left
   out; the result is 0 when no entry is in the window and 100 when all
   entries in it are UP. *)
C6_UptimeHalfOpen == [][uptime' # uptime => UptimeAsClaimed(FALSE)']_vars

C6_Witness ==
    /\ uptime # None /\ uptime[1].at = now /\ uptime[1].hours = DefaultUptimeHours
    /\ Len(history[1]) = 3 /\ Len(Answered(1)) = 3
    /\ Answered(1)[1].at = now - DefaultUptimeHours /\ history[1][1].health = "UP"
    /\ Answered(1)[2].at > now - DefaultUptimeHours /\ history[1][2].health = "DOWN"
    /\ history[1][3].health = "UP"
    /\ uptime[1].value = [num |-> 100, den |-> 2]

IsPrefix(s, t) == Len(s) <= Len(t) /\ \A k \in 1..Len(s) : s[k] = t[k]

(* the report last returned agrees with the latest entry of each history *)
ReportMatchesLatest ==
    /\ report # None
    /\ LET r == report[1]
           With(h) == {i \in 1..Len(checkers) : Last(history[i]).health = h}
       IN  /\ r.summary.total_applications = Len(checkers)
           /\ r.summary.up = Cardinality(With("UP"))
           /\ r.summary.degraded = Cardinality(With("DEGRADED"))
           /\ r.summary.down = Cardinality(With("DOWN"))
           /\ r.summary.up + r.summary.degraded + r.summary.down
                = r.summary.total_applications
           /\ Len(r.applications) = Len(checkers)
           /\ \A i \in 1..Len(checkers) :
                  /\ r.applications[i].name = checkers[i].name
                  /\ r.applications[i].current_status = Last(history[i]).health
                  /\ r.applications[i].status_code = Last(history[i]).status_code
                  /\ r.applications[i].message = Last(history[i]).message

(* C10: every step leaves each history a prefix of what it becomes
   (append-only), and a report generated when every checker has been checked
   at least once counts each checker once, by its latest entry, so that
   up + degraded + down = total_applications, and lists the checkers in
   registry order with that entry's verdict. *)
C10_ReportFromLatest ==
    [][/\ \A i \in 1..Len(checkers) : IsPrefix(history[i], history'[i])
       /\ (report' # report /\ \A i \in 1..Len(checkers) : history'[i] # <<>>)
             => ReportMatchesLatest']_vars

C10_Witness ==
    /\ report # None /\ Len(checkers) = 2
    /\ Len(history[1]) = 2 /\ Len(history[2]) = 1
    /\ history[1][1].health = "DOWN" /\ history[1][2].health = "UP"
    /\ history[2][1].health = "DEGRADED"
    /\ report[1].summary = [total_applications |-> 2, up |-> 1, degraded |-> 1, down |-> 0]

====
